---- MODULE Spec2Model ----
(***************************************************************************)
(* pytest-mypy (src/src/pytest_mypy.py): the plugin's hooks and items as   *)
(* a state machine.  One process hosts a succession of pytest sessions;    *)
(* the module-level list mypy_argv is the only plugin state that outlives  *)
(* a session.  Strings are sequences of tokens, so that str.split,         *)
(* str.partition, str.join and os.path.abspath are computed, not assumed.  *)
(***************************************************************************)
EXTENDS Integers, Sequences, FiniteSets, TLC

VARIABLES
    mypy_argv,        \* module-level list, line 10
    phase,            \* position of the running session in pytest's hook order
    option,           \* config.option of the running session
    seen,             \* paths handed to pytest_collect_file in this session
    items,            \* session.items
    original,         \* the list as pytest_collection_modifyitems left it
    dropped,          \* indices of original taken out of session.items since
    calls,            \* argument lists handed to mypy.api.run in this session
    result,           \* what mypy.api.run returned: <<[stdout, stderr, status]>>
    unmatched_lines,  \* the local list of pytest_runtestloop, line 98
    terminal,         \* what was written to the terminal reporter
    markers,          \* the 'markers' ini lines of the session's config
    reports,          \* one entry per item whose runtest has executed
    prev              \* the remembered earlier session of this process, if any

vars == <<mypy_argv, phase, option, seen, items, original, dropped, calls,
          result, unmatched_lines, terminal, markers, reports, prev>>

----------------------------------------------------------------------------
(* Bounds *)

MaxArgv == 2       \* sessions adding to mypy_argv that one process hosts
MaxItems == 2      \* files collected into items in one session
MaxLines == 2      \* lines of checker output

----------------------------------------------------------------------------
(* Strings *)

NL == "\n"
Colon == ":"
Slash == "/"
Dot == "."

\* MypyStatusItem.mypy_status before the checker ran (None)
None == -1

RECURSIVE Join(_, _)
\* sep.join(parts)
Join(parts, sep) ==
    IF parts = <<>> THEN <<>>
    ELSE IF Len(parts) = 1 THEN parts[1]
    ELSE parts[1] \o <<sep>> \o Join(Tail(parts), sep)

\* least index of tok in s, 0 when absent
Find(s, tok) ==
    LET hits == {i \in 1..Len(s) : s[i] = tok}
    IN IF hits = {} THEN 0 ELSE CHOOSE i \in hits : \A j \in hits : i <= j

RECURSIVE Split(_, _)
\* s.split(sep): always at least one part
Split(s, sep) ==
    LET i == Find(s, sep) IN
    IF i = 0 THEN <<s>>
    ELSE <<SubSeq(s, 1, i - 1)>> \o Split(SubSeq(s, i + 1, Len(s)), sep)

\* s.partition(sep)
Partition(s, sep) ==
    LET i == Find(s, sep) IN
    IF i = 0 THEN <<s, <<>>, <<>>>>
    ELSE <<SubSeq(s, 1, i - 1), <<sep>>, SubSeq(s, i + 1, Len(s))>>

\* the process's working directory
Cwd == <<Slash, "r">>

NormComponent(c) == c # <<>> /\ c # <<Dot>>

\* os.path.abspath on POSIX for paths without "..": join with the working
\* directory unless absolute, then drop empty and "." components
Abspath(p) ==
    LET full == IF p # <<>> /\ p[1] = Slash THEN p ELSE Cwd \o <<Slash>> \o p
        comps == SelectSeq(Split(full, Slash), NormComponent)
    IN <<Slash>> \o Join(comps, Slash)

\* py.path.local.ext
Ext(p) == IF p # <<>> /\ p[Len(p)] \in {".py", ".txt"} THEN p[Len(p)] ELSE ""

----------------------------------------------------------------------------
(* Inputs *)

Flags == [mypy : BOOLEAN, mypy_files : BOOLEAN,
          mypy_ignore_missing_imports : BOOLEAN]

NoFlags == [mypy |-> FALSE, mypy_files |-> FALSE,
            mypy_ignore_missing_imports |-> FALSE]

FileA == <<Slash, "r", Slash, "a", ".py">>
FileB == <<Slash, "r", Slash, "b", ".py">>
FileC == <<Slash, "r", Slash, "c", ".txt">>

\* files pytest may hand to pytest_collect_file (py.path.local: absolute)
Files == {FileA, FileB, FileC}

\* lines the checker may print
LineA == <<"a", ".py", Colon, "3", Colon, " error", Colon, " bad type">>
LineA2 == <<Slash, "r", Slash, Dot, Slash, "a", ".py", Colon, "9", Colon, " note">>
LineB == <<Dot, Slash, "b", ".py", Colon, "7", Colon, " error">>
LineX == <<"x", ".py", Colon, "1", Colon, " error">>

\* lines the checker may print: two for a.py (relative and absolute path),
\* one for a file that is never collected, and the empty line
Lines == {LineA, LineA2, LineX, <<>>}

BSeq(S, n) == UNION {[1..k -> S] : k \in 0..n}

Stdouts == {Join(ls, NL) : ls \in BSeq(Lines, MaxLines)}

Statuses == {0, 1}

\* sample results of mypy.api.run: clean, an error in a.py, an error in a
\* file that was not collected (with either status), a crash, two errors
SampleResults == {
    [stdout |-> <<>>, stderr |-> <<>>, status |-> 0],
    [stdout |-> LineA \o <<NL>>, stderr |-> <<>>, status |-> 1],
    [stdout |-> LineX \o <<NL>>, stderr |-> <<>>, status |-> 1],
    [stdout |-> LineX \o <<NL>>, stderr |-> <<>>, status |-> 0],
    [stdout |-> LineX, stderr |-> <<"Traceback">>, status |-> 2],
    [stdout |-> LineB \o <<NL>> \o LineA \o <<NL>>, stderr |-> <<>>, status |-> 1] }

----------------------------------------------------------------------------
(* Items *)

MARKER == "mypy"

\* MypyItem.__init__ / MypyFileItem.__init__
MypyFileItem(path) ==
    [kind |-> "file", fspath |-> path, markers |-> {MARKER},
     mypy_errors |-> <<>>, mypy_status |-> None]

\* MypyItem.__init__ / MypyStatusItem.__init__
MypyStatusItem ==
    [kind |-> "status", fspath |-> <<>>, markers |-> {MARKER},
     mypy_errors |-> <<>>, mypy_status |-> None]

IsFileItem(item) == item.kind = "file"

IsStatusItem(item) == item.kind = "status"

\* _mypy_file_items: the dict, as key |-> index of the item it holds (a later
\* item with the same key replaces an earlier one)
MypyFileItems(its) ==
    LET keys == {Abspath(its[i].fspath) : i \in {j \in 1..Len(its) : IsFileItem(its[j])}}
    IN [k \in keys |->
          CHOOSE i \in 1..Len(its) :
              /\ IsFileItem(its[i]) /\ Abspath(its[i].fspath) = k
              /\ \A j \in (i + 1)..Len(its) :
                    ~(IsFileItem(its[j]) /\ Abspath(its[j].fspath) = k)]

\* the dict's values in iteration order: a key keeps the position of its
\* first insertion
MypyFileItemsValues(its) ==
    LET d == MypyFileItems(its)
        first(i) == IsFileItem(its[i]) /\
                    \A j \in 1..(i - 1) :
                        ~(IsFileItem(its[j]) /\ Abspath(its[j].fspath) = Abspath(its[i].fspath))
        idx == SelectSeq([i \in 1..Len(its) |-> i], first)
    IN [n \in 1..Len(idx) |-> its[d[Abspath(its[idx[n]].fspath)]]]

----------------------------------------------------------------------------
(* Hooks *)

IGNORE_MISSING_IMPORTS == <<"--ignore-missing-imports">>

MarkerLine == <<MARKER, ": mark tests to be checked by mypy.">>

\* pytest_configure: the session starts with the options of its command line
Configure(f) ==
    /\ phase = "idle"
    /\ f.mypy_ignore_missing_imports => Len(mypy_argv) < MaxArgv
    /\ phase' = "collect"
    /\ option' = f
    /\ markers' = Append(markers, MarkerLine)
    /\ mypy_argv' = IF f.mypy_ignore_missing_imports
                     THEN Append(mypy_argv, IGNORE_MISSING_IMPORTS)
                     ELSE mypy_argv
    /\ UNCHANGED <<seen, items, original, dropped, calls, result,
                   unmatched_lines, terminal, reports, prev>>

\* variant: only --mypy enables collection
ShouldCollect_MypyFlagOnly(path, opt) == Ext(path) = ".py" /\ opt.mypy

\* the condition of pytest_collect_file
ShouldCollect(path, opt) ==
    Ext(path) = ".py" /\
    (opt.mypy \/ opt.mypy_ignore_missing_imports \/ opt.mypy_files)

\* pytest_collect_file; the node it returns joins session.items
CollectFile(path) ==
    /\ phase = "collect"
    /\ Len(items) < MaxItems
    /\ seen' = seen \cup {path}
    /\ items' = IF ShouldCollect(path, option)
                 THEN Append(items, MypyFileItem(path))
                 ELSE items
    /\ UNCHANGED <<mypy_argv, phase, option, original, dropped, calls, result,
                   unmatched_lines, terminal, markers, reports, prev>>

\* variant: the status item is added although no file item was collected
WantStatusItem_WithoutFileItems(opt, its) == opt.mypy_files

\* the condition of pytest_collection_modifyitems
WantStatusItem(opt, its) == opt.mypy_files /\ DOMAIN MypyFileItems(its) # {}

\* pytest_collection_modifyitems
ModifyItems ==
    /\ phase = "collect"
    /\ phase' = "modified"
    /\ items' = IF WantStatusItem(option, items)
                 THEN Append(items, MypyStatusItem)
                 ELSE items
    /\ original' = items'
    /\ UNCHANGED <<mypy_argv, option, seen, dropped, calls, result,
                   unmatched_lines, terminal, markers, reports, prev>>

\* the items of its at the indices in keep, in order
Pick(its, keep) ==
    LET idx == SelectSeq([i \in 1..Len(its) |-> i], LAMBDA i : i \in keep)
    IN [n \in 1..Len(idx) |-> its[idx[n]]]

\* Other implementations of pytest_collection_modifyitems run after the
\* plugin's and take items out of the list (-k, -m, --deselect, --lf).
Deselect(drop) ==
    /\ phase = "modified"
    /\ dropped = {}
    /\ drop # {} /\ drop \subseteq 1..Len(items)
    /\ items' = Pick(items, (1..Len(items)) \ drop)
    /\ dropped' = drop
    /\ UNCHANGED <<mypy_argv, phase, option, seen, original, calls, result,
                   unmatched_lines, terminal, markers, reports, prev>>

\* the file arguments of the checker, lines 80-82
CheckerFiles(opt, its) ==
    IF opt.mypy_files THEN <<>>
    ELSE LET vals == MypyFileItemsValues(its)
         IN [n \in 1..Len(vals) |-> vals[n].fspath]

\* variant: the checker is run on each file separately
CheckerCalls_PerFile(argv, files) ==
    IF files = <<>> THEN <<argv>>
    ELSE [n \in 1..Len(files) |-> argv \o <<files[n]>>]

\* the invocations of mypy.api.run that one pytest_runtestloop makes, line 91
CheckerCalls(argv, files) == <<argv \o files>>

\* the first terminal message, lines 83-90
RunningText(argv, files) ==
    <<"\nRunning ">> \o Join(<<(<<"mypy">>)>> \o argv, " ")
        \o (IF files = <<>> THEN <<>>
            ELSE <<" on ", ToString(Len(files)), " files">>)
        \o <<"... ">>

\* lines 94-96
SetStatus(its, status) ==
    [i \in 1..Len(its) |->
        IF IsStatusItem(its[i]) THEN [its[i] EXCEPT !.mypy_status = status]
        ELSE its[i]]

\* variant: a line that matches no collected file is dropped
AttributeLine_DropsUnmatched(line, st, d) ==
    IF line = <<>> THEN st
    ELSE LET parts == Partition(line, Colon)
             key == Abspath(parts[1])
         IN IF key \in DOMAIN d
            THEN [st EXCEPT !.items[d[key]].mypy_errors = Append(@, parts[3])]
            ELSE st

\* one turn of the loop of lines 99-108; st = [items, unmatched]
AttributeLine(line, st, d) ==
    IF line = <<>> THEN st
    ELSE LET parts == Partition(line, Colon)
             key == Abspath(parts[1])
         IN IF key \in DOMAIN d
            THEN [st EXCEPT !.items[d[key]].mypy_errors = Append(@, parts[3])]
            ELSE [st EXCEPT !.unmatched = Append(@, line)]

RECURSIVE AttributeLines(_, _, _)
\* the loop of lines 99-108
AttributeLines(lines, st, d) ==
    IF lines = <<>> THEN st
    ELSE AttributeLines(Tail(lines), AttributeLine(Head(lines), st, d), d)

\* lines 109-114
Diagnostics(unmatched, stderr, status) ==
    (IF \E i \in 1..Len(unmatched) : unmatched[i] # <<>>
     THEN <<[text |-> Join(unmatched, NL),
             color |-> IF status # 0 THEN "red" ELSE "green"]>>
     ELSE <<>>)
    \o (IF stderr # <<>> THEN <<[text |-> stderr, color |-> "red"]>> ELSE <<>>)

\* pytest_runtestloop
RunTestLoop(r) ==
    /\ phase = "modified"
    /\ phase' = "run"
    /\ LET mypy_file_items == MypyFileItems(items) IN
       IF DOMAIN mypy_file_items # {}
       THEN LET files == CheckerFiles(option, items)
                st == AttributeLines(Split(r.stdout, NL),
                                     [items |-> SetStatus(items, r.status),
                                      unmatched |-> <<>>],
                                     mypy_file_items)
            IN /\ calls' = calls \o CheckerCalls(mypy_argv, files)
               /\ result' = <<r>>
               /\ items' = st.items
               /\ unmatched_lines' = st.unmatched
               /\ terminal' = terminal
                     \o <<[text |-> RunningText(mypy_argv, files), color |-> "none"],
                          [text |-> <<"done with status ", ToString(r.status), NL>>,
                           color |-> "none"]>>
                     \o Diagnostics(st.unmatched, r.stderr, r.status)
       ELSE UNCHANGED <<calls, result, items, unmatched_lines, terminal>>
    /\ UNCHANGED <<mypy_argv, option, seen, original, dropped, markers,
                   reports, prev>>

----------------------------------------------------------------------------
(* Items' runtest, executed by pytest in the order of session.items *)

NoRaise == [raised |-> "none", longrepr |-> <<>>, warned |-> FALSE]

\* raise MypyError(text), rendered by MypyItem.repr_failure as its args[0]
RaiseMypyError(text) ==
    [raised |-> "MypyError", longrepr |-> text, warned |-> FALSE]

\* variant: only the first error is reported
FileRuntest_FirstErrorOnly(item, opt) ==
    IF item.mypy_errors # <<>> THEN RaiseMypyError(item.mypy_errors[1])
    ELSE IF opt.mypy_files THEN [NoRaise EXCEPT !.warned = TRUE]
    ELSE NoRaise

\* variant: the warning does not depend on --mypy-files
FileRuntest_AlwaysWarns(item, opt) ==
    IF item.mypy_errors # <<>> THEN RaiseMypyError(Join(item.mypy_errors, NL))
    ELSE [NoRaise EXCEPT !.warned = TRUE]

\* variant: an item also fails when the module-level argument list holds
\* an option more than once
FileRuntest_ReadsModuleState(item, opt) ==
    IF item.mypy_errors # <<>> \/ Len(mypy_argv) > 1
    THEN RaiseMypyError(Join(item.mypy_errors, NL))
    ELSE IF opt.mypy_files THEN [NoRaise EXCEPT !.warned = TRUE]
    ELSE NoRaise

\* MypyFileItem.runtest
FileRuntest(item, opt) ==
    IF item.mypy_errors # <<>> THEN RaiseMypyError(Join(item.mypy_errors, NL))
    ELSE IF opt.mypy_files THEN [NoRaise EXCEPT !.warned = TRUE]
    ELSE NoRaise

\* variant: only exit status 1 counts as a failure
StatusRuntest_OnlyStatusOne(item) ==
    IF item.mypy_status = None
    THEN [raised |-> "AssertionError", longrepr |-> <<"AssertionError">>,
          warned |-> FALSE]
    ELSE IF item.mypy_status = 1
    THEN RaiseMypyError(<<"mypy exited with status ",
                          ToString(item.mypy_status), ".">>)
    ELSE NoRaise

\* MypyStatusItem.runtest
StatusRuntest(item) ==
    IF item.mypy_status = None
    THEN [raised |-> "AssertionError", longrepr |-> <<"AssertionError">>,
          warned |-> FALSE]
    ELSE IF item.mypy_status # 0
    THEN RaiseMypyError(<<"mypy exited with status ",
                          ToString(item.mypy_status), ".">>)
    ELSE NoRaise

\* the next item of session.items runs
RunTest ==
    /\ phase = "run"
    /\ Len(reports) < Len(items)
    /\ LET item == items[Len(reports) + 1] IN
       reports' = Append(reports,
                         IF IsFileItem(item) THEN FileRuntest(item, option)
                         ELSE StatusRuntest(item))
    /\ UNCHANGED <<mypy_argv, phase, option, seen, items, original, dropped,
                   calls, result, unmatched_lines, terminal, markers, prev>>

\* pass or fail, as the runner reports an item whose runtest raised or not
Failed(report) == report.raised # "none"

\* kind and path of each item of a list
Sig(its) == [i \in 1..Len(its) |-> <<its[i].kind, its[i].fspath>>]

\* what a session was given and what it reported
Record ==
    [option |-> option, seen |-> seen, original |-> Sig(original),
     dropped |-> dropped, result |-> result,
     outcomes |-> [i \in 1..Len(reports) |-> Failed(reports[i])]]

\* the session ends; everything but the module-level list goes with it
\* (remember: the observer keeps the record of the first session it watched)
SessionFinish(remember) ==
    /\ phase = "run"
    /\ Len(reports) = Len(items)
    /\ prev' = IF remember /\ prev = <<>> THEN <<Record>> ELSE prev
    /\ phase' = "idle"
    /\ option' = NoFlags
    /\ seen' = {}
    /\ items' = <<>>
    /\ original' = <<>>
    /\ dropped' = {}
    /\ calls' = <<>>
    /\ result' = <<>>
    /\ unmatched_lines' = <<>>
    /\ terminal' = <<>>
    /\ markers' = <<>>
    /\ reports' = <<>>
    /\ UNCHANGED mypy_argv

----------------------------------------------------------------------------
(* Sessions of one process, each with any command line, any collection and  *)
(* any of the sample results of the checker                                 *)

Init ==
    /\ mypy_argv = <<>>
    /\ phase = "idle"
    /\ option = NoFlags
    /\ seen = {}
    /\ items = <<>>
    /\ original = <<>>
    /\ dropped = {}
    /\ calls = <<>>
    /\ result = <<>>
    /\ unmatched_lines = <<>>
    /\ terminal = <<>>
    /\ markers = <<>>
    /\ reports = <<>>
    /\ prev = <<>>

Next ==
    \/ \E f \in Flags : Configure(f)
    \/ \E path \in Files : CollectFile(path)
    \/ ModifyItems
    \/ \E drop \in SUBSET (1..Len(items)) : Deselect(drop)
    \/ \E r \in SampleResults : RunTestLoop(r)
    \/ RunTest
    \/ SessionFinish(FALSE)

Spec == Init /\ [][Next]_vars

----------------------------------------------------------------------------
(* Sessions without --mypy-ignore-missing-imports that collect '.py' files,  *)
(* with every output of up to MaxLines lines                                *)

NextOutput ==
    \/ \E f \in Flags : ~f.mypy_ignore_missing_imports /\ Configure(f)
    \/ \E path \in {FileA, FileB} : CollectFile(path)
    \/ ModifyItems
    \/ \E i \in 1..Len(items) : Deselect({i})
    \/ \E stdout \in Stdouts, status \in Statuses :
          RunTestLoop([stdout |-> stdout, stderr |-> <<>>, status |-> status])
    \/ RunTest
    \/ SessionFinish(FALSE)

SpecOutput == Init /\ [][NextOutput]_vars

----------------------------------------------------------------------------
(* A session, then sessions given again what the remembered one was given   *)

IsPrefix(s, t) == Len(s) <= Len(t) /\ SubSeq(t, 1, Len(s)) = s

FileSig(sig) == SelectSeq(sig, LAMBDA e : e[1] = "file")

\* the remembered session, as a set: empty until one was remembered
Remembered == {prev[i] : i \in 1..Len(prev)}

NextRerun ==
    \/ \E f \in Flags : (\A p \in Remembered : f = p.option) /\ Configure(f)
    \/ \E path \in Files :
          /\ \A p \in Remembered : path \in p.seen
          /\ CollectFile(path)
          /\ \A p \in Remembered : IsPrefix(Sig(items'), FileSig(p.original))
    \/ /\ \A p \in Remembered :
             seen = p.seen /\ Sig(items) = FileSig(p.original)
       /\ ModifyItems
    \/ \E drop \in SUBSET (1..Len(items)) :
          (\A p \in Remembered : drop = p.dropped) /\ Deselect(drop)
    \/ \E r \in SampleResults :
          /\ \A p \in Remembered :
                dropped = p.dropped /\ p.result \in {<<>>, <<r>>}
          /\ RunTestLoop(r)
    \/ RunTest
    \/ SessionFinish(TRUE)

SpecRerun == Init /\ [][NextRerun]_vars

----------------------------------------------------------------------------
(* What the checker printed, read independently of the loop above *)

CheckerRan == calls # <<>>

\* the non-empty lines of the checker's stdout, in order
OutputLines ==
    IF result = <<>> THEN <<>>
    ELSE SelectSeq(Split(result[1].stdout, NL), LAMBDA l : l # <<>>)

PathOf(line) == Partition(line, Colon)[1]

MessageOf(line) == Partition(line, Colon)[3]

\* the index in session.items of the file item a line belongs to (the last
\* item collected for that absolute path), 0 when there is none
Owner(line) ==
    LET key == Abspath(PathOf(line))
        own == {i \in 1..Len(items) :
                  IsFileItem(items[i]) /\ Abspath(items[i].fspath) = key}
    IN IF own = {} THEN 0 ELSE CHOOSE i \in own : \A j \in own : j <= i

\* the messages of the lines that belong to item i, in output order
Expected(i) ==
    LET mine == SelectSeq(OutputLines, LAMBDA l : Owner(l) = i)
    IN [n \in 1..Len(mine) |-> MessageOf(mine[n])]

RECURSIVE SumErrors(_)
SumErrors(its) ==
    IF its = <<>> THEN 0 ELSE Len(Head(its).mypy_errors) + SumErrors(Tail(its))

FileItemsRun == {i \in 1..Len(reports) : IsFileItem(items[i])}

StatusItemsRun == {i \in 1..Len(reports) : IsStatusItem(items[i])}

AllRun == phase = "run" /\ Len(reports) = Len(items)

----------------------------------------------------------------------------
(* Claims *)

\* C1: a file item that was attributed one or more output lines fails with
\* MypyError, once, and its failure text is its messages (the text after the
\* first ':' of each of its lines) joined with '\n' in output order; output
\* 'a.py:3: error: bad type' gives a.py the text '3: error: bad type'.
C1_FailureText ==
    /\ Len(reports) <= Len(items)
    /\ \A i \in FileItemsRun :
          LET messages == Expected(i) IN
          messages # <<>> =>
              /\ reports[i].raised = "MypyError"
              /\ reports[i].longrepr = Join(messages, NL)
    /\ \A i \in FileItemsRun :
          (OutputLines = <<LineA>> /\ Owner(LineA) = i) =>
              reports[i].longrepr = <<"3", Colon, " error", Colon, " bad type">>

C1_Witness ==
    \E i \in FileItemsRun :
        /\ Len(Expected(i)) >= 2
        /\ reports[i].raised = "MypyError"

\* C3: a file item with no attributed line does not raise, and warns exactly
\* when --mypy-files is set; an item with attributed lines never warns.
C3_CompletenessWarning ==
    \A i \in FileItemsRun :
        LET messages == Expected(i) IN
        /\ messages = <<>> =>
              /\ reports[i].raised = "none"
              /\ reports[i].warned <=> option.mypy_files
        /\ messages # <<>> => ~reports[i].warned

C3_Witness ==
    /\ CheckerRan
    /\ \E i, j \in FileItemsRun :
          /\ Expected(i) = <<>> /\ reports[i].warned
          /\ Expected(j) # <<>> /\ ~reports[j].warned

\* C6: every non-empty output line is either appended, without its prefix up
\* to the first ':', to the errors of the one file item with that absolute
\* path, or kept whole in the unmatched list, which is written to the
\* terminal in output order; the counts add up.
C6_Partition ==
    (phase = "run" /\ CheckerRan) =>
        /\ Len(OutputLines) = SumErrors(items) + Len(unmatched_lines)
        /\ unmatched_lines = SelectSeq(OutputLines, LAMBDA l : Owner(l) = 0)
        /\ \A i \in 1..Len(items) :
              items[i].mypy_errors =
                  IF IsFileItem(items[i]) THEN Expected(i) ELSE <<>>
        /\ unmatched_lines # <<>> =>
              /\ Len(terminal) >= 3
              /\ terminal[3].text = Join(unmatched_lines, NL)
        /\ unmatched_lines = <<>> => Len(terminal) = 2

C6_Witness ==
    /\ phase = "run" /\ CheckerRan
    /\ Len(unmatched_lines) >= 1
    /\ SumErrors(items) >= 1
    /\ \E i, j \in 1..Len(items) :
          i < j /\ IsFileItem(items[i]) /\ items[i].fspath = items[j].fspath

\* the file arguments of the checker's invocation: all but the options
FileArgs == SelectSeq(calls[1], LAMBDA a : a # IGNORE_MISSING_IMPORTS)

\* how often --ignore-missing-imports occurs in the checker's arguments
IgnoreArgs == Len(SelectSeq(calls[1], LAMBDA a : a = IGNORE_MISSING_IMPORTS))

\* the items this session collected, whatever was deselected since
Collected == IF phase = "collect" THEN items ELSE original

StatusItemDropped == \E d \in dropped : IsStatusItem(original[d])

\* C2 as stated: whenever the checker ran, returned a non-zero status and
\* left an unattributed line, some MypyStatusItem of the session fails,
\* whatever the flags.
C2_AlwaysFailingAggregate ==
    (AllRun /\ CheckerRan /\ result[1].status # 0 /\ unmatched_lines # <<>>) =>
        \E i \in StatusItemsRun : Failed(reports[i])

\* C2 as amended: with --mypy-files set and the MypyStatusItem not taken out
\* of the item list, a checker run that returned a non-zero status and left
\* an unattributed line makes that MypyStatusItem fail; without --mypy-files
\* the session has no MypyStatusItem.
C2_FailingAggregateWithMypyFiles ==
    /\ (AllRun /\ CheckerRan /\ result[1].status # 0 /\ unmatched_lines # <<>>
          /\ option.mypy_files /\ ~StatusItemDropped) =>
          \E i \in StatusItemsRun : reports[i].raised = "MypyError"
    /\ ~option.mypy_files => \A i \in 1..Len(items) : ~IsStatusItem(items[i])

C2_Witness ==
    /\ AllRun /\ CheckerRan /\ result[1].status = 2 /\ unmatched_lines # <<>>
    /\ option.mypy_files /\ dropped # {} /\ ~StatusItemDropped
    /\ \E i \in StatusItemsRun : reports[i].raised = "MypyError"

\* C4: the checker is invoked at most once in a session, and once exactly
\* when session.items holds a MypyFileItem as pytest_runtestloop starts;
\* no item has run before the invocation, the assignment of mypy_status to
\* every MypyStatusItem and the attribution of the output are complete.
C4_OnceBeforeItems ==
    /\ Len(calls) <= 1
    /\ phase = "run" =>
          (Len(calls) = 1 <=> \E i \in 1..Len(items) : IsFileItem(items[i]))
    /\ phase # "run" => calls = <<>> /\ reports = <<>>
    /\ (reports # <<>> /\ CheckerRan) =>
          \A i \in 1..Len(items) :
              IF IsStatusItem(items[i])
              THEN items[i].mypy_status = result[1].status
              ELSE items[i].mypy_errors = Expected(i)

C4_Witness ==
    /\ reports # <<>> /\ Len(calls) = 1
    /\ \E i \in 1..Len(items) : IsStatusItem(items[i]) /\ items[i].mypy_status = 1
    /\ \E i \in 1..Len(items) : IsFileItem(items[i]) /\ items[i].mypy_errors # <<>>

\* C5: the arguments passed to the checker depend on the session's own flags
\* only: '--ignore-missing-imports' is passed at most once, and only in a
\* session started with --mypy-ignore-missing-imports.
C5_NoStateAcrossSessions ==
    CheckerRan =>
        /\ IgnoreArgs <= 1
        /\ IgnoreArgs >= 1 => option.mypy_ignore_missing_imports

\* C7: a session given the flags, the collection and the checker result of
\* an earlier session of the process gives every item the outcome it had
\* in that session.
C7_SameOutcomes ==
    \A k \in 1..Len(prev) :
        (/\ phase = "run"
         /\ option = prev[k].option
         /\ Sig(original) = prev[k].original
         /\ dropped = prev[k].dropped
         /\ result = prev[k].result) =>
            /\ Len(items) = Len(prev[k].outcomes)
            /\ \A i \in 1..Len(reports) : Failed(reports[i]) = prev[k].outcomes[i]

C7_Witness ==
    /\ prev # <<>> /\ AllRun /\ CheckerRan
    /\ Len(mypy_argv) >= 2
    /\ \E i \in 1..Len(reports) : Failed(reports[i])
    /\ \E i \in 1..Len(reports) : ~Failed(reports[i])

\* C8: a '.py' file handed to pytest_collect_file is wrapped in a
\* MypyFileItem exactly when one of the three flags is set, other files
\* never; the checker's file arguments are empty with --mypy-files and
\* otherwise the paths of the MypyFileItems in session.items, each distinct
\* absolute path once.
C8_CollectedAndPassed ==
    /\ \A p \in Files :
          (\E i \in 1..Len(Collected) :
               IsFileItem(Collected[i]) /\ Collected[i].fspath = p)
          <=> (/\ p \in seen
               /\ Ext(p) = ".py"
               /\ option.mypy \/ option.mypy_files
                     \/ option.mypy_ignore_missing_imports)
    /\ CheckerRan =>
          IF option.mypy_files THEN FileArgs = <<>>
          ELSE /\ {FileArgs[n] : n \in 1..Len(FileArgs)}
                    = {items[i].fspath : i \in {j \in 1..Len(items) : IsFileItem(items[j])}}
               /\ Cardinality({Abspath(FileArgs[n]) : n \in 1..Len(FileArgs)})
                    = Len(FileArgs)

C8_Witness ==
    /\ CheckerRan /\ ~option.mypy_files /\ ~option.mypy
    /\ FileC \in seen
    /\ Len(FileArgs) = 1
    /\ \E i, j \in 1..Len(items) :
          i < j /\ IsFileItem(items[i]) /\ items[i].fspath = items[j].fspath

\* C9: pytest_collection_modifyitems appends one MypyStatusItem exactly when
\* --mypy-files is set and the list holds a MypyFileItem, and leaves the
\* list alone otherwise; run after the checker returned, that item fails
\* with MypyError exactly when the exit status is non-zero.
C9_StatusItem ==
    /\ phase = "collect" => \A i \in 1..Len(items) : IsFileItem(items[i])
    /\ phase \in {"modified", "run"} =>
          LET files == SelectSeq(original, IsFileItem) IN
          Sig(original) = Sig(files) \o
              (IF option.mypy_files /\ files # <<>>
               THEN <<(<<"status", <<>>>>)>> ELSE <<>>)
    /\ \A i \in StatusItemsRun :
          CheckerRan =>
              (reports[i].raised = "MypyError" <=> result[1].status # 0)

C9_Witness ==
    /\ CheckerRan /\ dropped = {}
    /\ \A i \in 1..Len(items) : items[i].mypy_errors = <<>>
    /\ \E i \in StatusItemsRun : reports[i].raised = "MypyError"

\* C10: no MypyStatusItem runs with mypy_status still None, so the assertion
\* of MypyStatusItem.runtest never fails, also when items were deselected.
C10_StatusAssertionHolds ==
    \A i \in StatusItemsRun :
        items[i].mypy_status # None /\ reports[i].raised # "AssertionError"

====
